---- MODULE Spec2Model ----
(***************************************************************************)
(* Model of Java/SignatureGenerator/fix_encoding.py: a script that reads   *)
(* src/main/java/converter/Main.java in text mode, applies two literal     *)
(* str.replace substitutions, writes the result back over the same file    *)
(* and prints a confirmation line.                                         *)
(*                                                                         *)
(* A text is a sequence of characters; a character is a one-character      *)
(* string, except the characters outside ASCII and the control characters, *)
(* which are named by their code point.  The file holds a sequence of      *)
(* such units; the unit BAD stands for a byte that is not valid UTF-8.     *)
(***************************************************************************)
EXTENDS Integers, Sequences, FiniteSets

\* ------------------------------------------------------------------ bounds
\* Number of pieces an initial file content is assembled from.
MaxPieces == 2

\* The two invocations of the script: the second is a re-run or a concurrent run.
Procs == {1, 2}

\* --------------------------------------------------------------- characters
CR == "U+000D"
LF == "U+000A"
NUL == "U+0000"
BAD == "byte 0xFF"
ACirc == "U+00E2"
Euro == "U+20AC"
EmDash == "U+2014"

\* 'indexOf("' and '")' : what the three literals of lines 8-9 share
Pfx == <<"i", "n", "d", "e", "x", "O", "f", "(", "\"">>
Sfx == <<"\"", ")">>

\* line 8, first argument: indexOf("<U+00E2><U+20AC>"")
PatA == Pfx \o <<ACirc, Euro, "\"">> \o Sfx

\* line 9, first argument: indexOf("<U+2014>")
PatB == Pfx \o <<EmDash>> \o Sfx

\* lines 8 and 9, second argument: indexOf("—"), the escape spelled out
Repl == Pfx \o <<"\\", "u", "2", "0", "1", "4">> \o Sfx

\* ------------------------------------------------------------ pure helpers
RECURSIVE Concat(_)
Concat(ss) == IF ss = <<>> THEN <<>> ELSE Head(ss) \o Concat(Tail(ss))

StartsWith(s, pat) == Len(s) >= Len(pat) /\ SubSeq(s, 1, Len(pat)) = pat

\* Positions at which pat occurs in s (overlapping occurrences included).
Occurrences(s, pat) ==
    {i \in 1..Len(s) : i + Len(pat) - 1 <= Len(s)
                       /\ SubSeq(s, i, i + Len(pat) - 1) = pat}

Count(s, pat) == Cardinality(Occurrences(s, pat))

IsPrefix(s, t) == Len(s) <= Len(t) /\ SubSeq(t, 1, Len(s)) = s

\* str.replace(old, new) for a non-empty old: scan from the left, replace
\* each match and resume the scan after it.
RECURSIVE Replace(_, _, _)
Replace(s, old, new) ==
    IF Len(s) < Len(old) THEN s
    ELSE IF StartsWith(s, old)
         THEN new \o Replace(SubSeq(s, Len(old) + 1, Len(s)), old, new)
         ELSE <<Head(s)>> \o Replace(Tail(s), old, new)

\* line 8
SubstituteA_PatB(s) == Replace(s, PatA, PatB)
SubstituteA(s) == Replace(s, PatA, Repl)

\* line 9
SubstituteB_None(s) == s
SubstituteB_Grow(s) == Replace(s, PatB, Repl \o PatB)
SubstituteB(s) == Replace(s, PatB, Repl)

\* One left-to-right pass replacing every occurrence of either pattern.
RECURSIVE ReplaceBoth(_)
ReplaceBoth(s) ==
    IF s = <<>> THEN <<>>
    ELSE IF StartsWith(s, PatA)
         THEN Repl \o ReplaceBoth(SubSeq(s, Len(PatA) + 1, Len(s)))
    ELSE IF StartsWith(s, PatB)
         THEN Repl \o ReplaceBoth(SubSeq(s, Len(PatB) + 1, Len(s)))
    ELSE <<Head(s)>> \o ReplaceBoth(Tail(s))

\* open(..., 'r', encoding='utf-8'): strict UTF-8 decoding
Decodable(data) == \A i \in 1..Len(data) : data[i] # BAD

\* open(..., 'r') with newline=None: universal newlines, CR LF and a lone
\* CR both become LF in the string that read() returns.
RECURSIVE TranslateRead(_)
TranslateRead(data) ==
    IF data = <<>> THEN <<>>
    ELSE IF Head(data) = CR
         THEN IF Len(data) >= 2 /\ data[2] = LF
              THEN <<LF>> \o TranslateRead(SubSeq(data, 3, Len(data)))
              ELSE <<LF>> \o TranslateRead(Tail(data))
    ELSE <<Head(data)>> \o TranslateRead(Tail(data))

\* os.linesep
LineSep(plat) == IF plat = "nt" THEN <<CR, LF>> ELSE <<LF>>

\* open(..., 'w') with newline=None: every LF written becomes os.linesep.
RECURSIVE TranslateWrite(_, _)
TranslateWrite(s, plat) ==
    IF s = <<>> THEN <<>>
    ELSE (IF Head(s) = LF THEN LineSep(plat) ELSE <<Head(s)>>)
         \o TranslateWrite(Tail(s), plat)

\* What one complete run leaves in a file that held data.
Patched(data, plat) ==
    TranslateWrite(SubstituteB(SubstituteA(TranslateRead(data))), plat)

Nuls(n) == [i \in 1..n |-> NUL]

\* write(2) of chunk at the descriptor's offset off; a gap beyond the end
\* of the file reads back as NUL.
WriteAt(data, off, chunk) ==
    LET base == IF off > Len(data) THEN data \o Nuls(off - Len(data)) ELSE data
    IN SubSeq(base, 1, off) \o chunk
         \o SubSeq(base, off + Len(chunk) + 1, Len(base))

\* ------------------------------------------------------------------- state
VARIABLES
    platform,   \* "posix" or "nt": decides os.linesep
    sched,      \* "seq": the second invocation follows the first; "conc": they overlap
    fs,         \* the target path: [exists, readable, writable, data]
    orig,       \* the data the file held before any invocation
    pc,         \* position of each invocation in the script
    inp,        \* the data each invocation's read() was served
    content,    \* the script's variable content
    buf,        \* the encoded text handed to the write file object
    wpos,       \* file offset of the write descriptor
    left,       \* what each invocation left in the file when it closed it
    truncated,  \* whether the invocation has truncated the file
    diedAt,     \* where an invocation was when an error or a kill ended it
    wr,         \* who truncated or wrote the file last, and whether nobody
                \* else wrote since that invocation truncated it
    stdout      \* lines printed by each invocation

vars == <<platform, sched, fs, orig, pc, inp, content, buf, wpos, left,
          truncated, diedAt, wr, stdout>>

Terminal == {"done", "error_read", "error_write", "killed"}

\* Initial file contents: up to MaxPieces pieces, chosen among the patterns,
\* the replacement, fragments of them, line ends and an undecodable byte.
Pieces == {PatA, PatB, Repl, Pfx, Sfx, <<EmDash>>, <<"x">>, <<CR>>, <<LF>>, <<BAD>>}

PieceSeqs == UNION {[1..n -> Pieces] : n \in 0..MaxPieces}

Contents == {Concat(ps) : ps \in PieceSeqs}

\* Contents used when two invocations overlap.
ConcContents == {<<>>, <<"x">>, <<"x", CR, LF>>, PatB}

FileStates(cs) ==
    {[exists |-> FALSE, readable |-> FALSE, writable |-> FALSE, data |-> <<>>]}
    \cup {[exists |-> TRUE, readable |-> r, writable |-> w, data |-> c] :
             r \in BOOLEAN, w \in BOOLEAN, c \in cs}

InitCommon ==
    /\ platform \in {"posix", "nt"}
    /\ orig = fs.data
    /\ pc = [p \in Procs |-> "idle"]
    /\ inp = [p \in Procs |-> <<>>]
    /\ content = [p \in Procs |-> <<>>]
    /\ buf = [p \in Procs |-> <<>>]
    /\ wpos = [p \in Procs |-> 0]
    /\ left = [p \in Procs |-> <<>>]
    /\ truncated = [p \in Procs |-> FALSE]
    /\ diedAt = [p \in Procs |-> "none"]
    /\ wr = [last |-> 0, fresh |-> TRUE]
    /\ stdout = [p \in Procs |-> 0]

Init ==
    /\ sched = "seq"
    /\ fs \in FileStates(Contents)
    /\ InitCommon

InitConc ==
    /\ sched = "conc"
    /\ fs \in FileStates(ConcContents)
    /\ InitCommon

\* ----------------------------------------------------------------- actions
\* An invocation may begin when the schedule lets it: in a sequential
\* schedule invocation p + 1 begins after invocation p has ended.
MayStart(p) ==
    sched = "conc" \/ \A q \in Procs : q < p => pc[q] \in Terminal

\* line 4: open(path, 'r') succeeds on an existing, readable file
CanOpenRead_Always == TRUE
CanOpenRead == fs.exists /\ fs.readable

\* line 4: open(path, 'r', encoding='utf-8')
OpenRead(p) ==
    /\ pc[p] = "idle"
    /\ MayStart(p)
    /\ IF CanOpenRead
       THEN /\ pc' = [pc EXCEPT ![p] = "read"]
            /\ UNCHANGED diedAt
       ELSE /\ pc' = [pc EXCEPT ![p] = "error_read"]
            /\ diedAt' = [diedAt EXCEPT ![p] = "open_r"]
    /\ UNCHANGED <<platform, sched, fs, orig, inp, content, buf, wpos, left,
                   truncated, wr, stdout>>

\* line 5: content = f.read()
ReadAll(p) ==
    /\ pc[p] = "read"
    /\ inp' = [inp EXCEPT ![p] = fs.data]
    /\ IF Decodable(fs.data)
       THEN /\ content' = [content EXCEPT ![p] = TranslateRead(fs.data)]
            /\ pc' = [pc EXCEPT ![p] = "substA"]
            /\ UNCHANGED diedAt
       ELSE /\ pc' = [pc EXCEPT ![p] = "error_read"]
            /\ diedAt' = [diedAt EXCEPT ![p] = "read"]
            /\ UNCHANGED content
    /\ UNCHANGED <<platform, sched, fs, orig, buf, wpos, left, truncated,
                   wr, stdout>>

\* line 8
SubstA(p) ==
    /\ pc[p] = "substA"
    /\ content' = [content EXCEPT ![p] = SubstituteA(content[p])]
    /\ pc' = [pc EXCEPT ![p] = "substB"]
    /\ UNCHANGED <<platform, sched, fs, orig, inp, buf, wpos, left, truncated,
                   diedAt, wr, stdout>>

\* line 9
SubstB(p) ==
    /\ pc[p] = "substB"
    /\ content' = [content EXCEPT ![p] = SubstituteB(content[p])]
    /\ pc' = [pc EXCEPT ![p] = "open_w"]
    /\ UNCHANGED <<platform, sched, fs, orig, inp, buf, wpos, left, truncated,
                   diedAt, wr, stdout>>

\* line 11: mode 'w' empties the file as it opens it
Truncate_Keep(data) == data
Truncate(data) == <<>>

\* line 11: open(path, 'w', encoding='utf-8') truncates the file, or fails
\* and leaves it alone.
OpenWrite(p) ==
    /\ pc[p] = "open_w"
    /\ IF fs.writable
       THEN /\ fs' = [fs EXCEPT !.data = Truncate(fs.data)]
            /\ truncated' = [truncated EXCEPT ![p] = TRUE]
            /\ wpos' = [wpos EXCEPT ![p] = 0]
            /\ wr' = [last |-> p, fresh |-> TRUE]
            /\ pc' = [pc EXCEPT ![p] = "write"]
            /\ UNCHANGED diedAt
       ELSE /\ pc' = [pc EXCEPT ![p] = "error_write"]
            /\ diedAt' = [diedAt EXCEPT ![p] = "open_w"]
            /\ UNCHANGED <<fs, truncated, wpos, wr>>
    /\ UNCHANGED <<platform, sched, orig, inp, content, buf, left, stdout>>

\* line 12: f.write(content) encodes the text into the file object's buffer
WriteCall(p) ==
    /\ pc[p] = "write"
    /\ buf' = [buf EXCEPT ![p] = TranslateWrite(content[p], platform)]
    /\ pc' = [pc EXCEPT ![p] = "flush"]
    /\ UNCHANGED <<platform, sched, fs, orig, inp, content, wpos, left,
                   truncated, diedAt, wr, stdout>>

\* The whole buffer has reached the file.
Flushed_Any(p) == TRUE
Flushed(p) == wpos[p] = Len(buf[p])

\* lines 11-12: the buffer reaches the file in one or more write(2) calls
Flush(p) ==
    /\ pc[p] = "flush"
    /\ \E n \in 1..(Len(buf[p]) - wpos[p]) :
          /\ fs' = [fs EXCEPT !.data =
                       WriteAt(fs.data, wpos[p],
                               SubSeq(buf[p], wpos[p] + 1, wpos[p] + n))]
          /\ wpos' = [wpos EXCEPT ![p] = wpos[p] + n]
    /\ wr' = IF wr.last = p THEN wr ELSE [last |-> p, fresh |-> FALSE]
    /\ UNCHANGED <<platform, sched, orig, pc, inp, content, buf, left,
                   truncated, diedAt, stdout>>

\* line 12, leaving the with block: the file is closed
Close(p) ==
    /\ pc[p] = "flush"
    /\ Flushed(p)
    /\ left' = [left EXCEPT ![p] = fs.data]
    /\ pc' = [pc EXCEPT ![p] = "print"]
    /\ UNCHANGED <<platform, sched, fs, orig, inp, content, buf, wpos,
                   truncated, diedAt, wr, stdout>>

\* lines 11-12: a write(2) fails (disk full, I/O error) and the exception
\* leaves the script
WriteFail(p) ==
    /\ pc[p] = "flush"
    /\ ~Flushed(p)
    /\ pc' = [pc EXCEPT ![p] = "error_write"]
    /\ diedAt' = [diedAt EXCEPT ![p] = "flush"]
    /\ UNCHANGED <<platform, sched, fs, orig, inp, content, buf, wpos, left,
                   truncated, wr, stdout>>

\* line 14: print("Fixed encoding issues in Main.java")
Confirm(p) ==
    /\ pc[p] = "print"
    /\ stdout' = [stdout EXCEPT ![p] = stdout[p] + 1]
    /\ pc' = [pc EXCEPT ![p] = "done"]
    /\ UNCHANGED <<platform, sched, fs, orig, inp, content, buf, wpos, left,
                   truncated, diedAt, wr>>

\* The process is terminated from outside while it runs.
Kill(p) ==
    /\ pc[p] \notin Terminal \cup {"idle"}
    /\ pc' = [pc EXCEPT ![p] = "killed"]
    /\ diedAt' = [diedAt EXCEPT ![p] = pc[p]]
    /\ UNCHANGED <<platform, sched, fs, orig, inp, content, buf, wpos, left,
                   truncated, wr, stdout>>

Next ==
    \E p \in Procs :
        \/ OpenRead(p)
        \/ ReadAll(p)
        \/ SubstA(p)
        \/ SubstB(p)
        \/ OpenWrite(p)
        \/ WriteCall(p)
        \/ Flush(p)
        \/ Close(p)
        \/ WriteFail(p)
        \/ Confirm(p)
        \/ Kill(p)

Spec == Init /\ [][Next]_vars

SpecConc == InitConc /\ [][Next]_vars

\* ------------------------------------------------------------- properties
\* The string read() handed to invocation p.
Decoded(p) == TranslateRead(inp[p])

NoPattern(s) == Count(s, PatA) = 0 /\ Count(s, PatB) = 0

\* Invocation p ran to the end of the script.
Succeeded(p) == pc[p] = "done"

\* C1 (as stated): after a successful run the file holds the content the run
\* read with every occurrence of pattern A and of pattern B replaced by the
\* replacement literal and every other character kept in order.
C1_AllReplacedRestKept ==
    \A p \in Procs : Succeeded(p) => left[p] = ReplaceBoth(inp[p])

\* C2 (as stated): with N1 occurrences of A and N2 of B in the input, the
\* output holds exactly N1 + N2 occurrences of the replacement and no
\* occurrence of A or B.
C2_ExactlyN1PlusN2 ==
    \A p \in Procs : Succeeded(p) =>
        /\ Count(left[p], Repl) = Count(inp[p], PatA) + Count(inp[p], PatB)
        /\ NoPattern(left[p])

\* C2 (amended): the output holds N1 + N2 occurrences of the replacement in
\* addition to the occurrences the input already had, and no occurrence of
\* A or B.
C2_CountsWithExisting ==
    \A p \in Procs : Succeeded(p) =>
        /\ Count(left[p], Repl) =
              Count(inp[p], PatA) + Count(inp[p], PatB) + Count(inp[p], Repl)
        /\ NoPattern(left[p])

C2_Witness ==
    \E p \in Procs :
        /\ Succeeded(p)
        /\ Count(inp[p], PatA) + Count(inp[p], PatB) >= 1
        /\ Count(inp[p], Repl) >= 1
        /\ Count(left[p], Repl) = 2

\* C3 (as stated): a successful run on a content without any occurrence of
\* A or B leaves the file content exactly as it was.
C3_NoPatternUnchanged ==
    \A p \in Procs :
        (Succeeded(p) /\ NoPattern(inp[p])) => left[p] = inp[p]

\* C4: a second run in sequence after a successful first run writes back
\* exactly what it read, which is what the first run left.
C4_SecondRunFixedPoint ==
    (sched = "seq" /\ Succeeded(1) /\ Succeeded(2)) =>
        /\ inp[2] = left[1]
        /\ left[2] = inp[2]
        /\ fs.data = left[1]

C4_Witness ==
    /\ sched = "seq" /\ Succeeded(1) /\ Succeeded(2)
    /\ ~NoPattern(orig)
    /\ left[1] # orig
    /\ fs.data = left[1]

\* C5: when the path is missing or unreadable, a run that has begun has
\* ended with the error of the read step, has not truncated or written the
\* file, and has printed nothing.
C5_ReadOpenFailure ==
    \A p \in Procs :
        ((~fs.exists \/ ~fs.readable) /\ pc[p] # "idle") =>
            /\ pc[p] = "error_read"
            /\ diedAt[p] = "open_r"
            /\ ~truncated[p]
            /\ wpos[p] = 0
            /\ fs.data = orig
            /\ stdout[p] = 0

C5_Witness ==
    \E p \in Procs : ~fs.exists /\ pc[p] = "error_read" /\ fs.data = orig

\* C6: the confirmation is printed at most once, a run has printed it
\* exactly when it has succeeded, by then the read, both substitutions and
\* the whole write-back are over, and a run ended by an error has printed
\* nothing.
C6_ConfirmationLast ==
    \A p \in Procs :
        /\ stdout[p] <= 1
        /\ (stdout[p] = 1) <=> Succeeded(p)
        /\ stdout[p] = 1 =>
              /\ content[p] = SubstituteB(SubstituteA(Decoded(p)))
              /\ buf[p] = TranslateWrite(content[p], platform)
              /\ truncated[p]
              /\ wpos[p] = Len(buf[p])
        /\ pc[p] \in {"error_read", "error_write"} => stdout[p] = 0

C6_Witness ==
    /\ \E p \in Procs : Succeeded(p) /\ stdout[p] = 1 /\ Len(buf[p]) > 0
    /\ \E p \in Procs : pc[p] = "error_write" /\ diedAt[p] = "flush"

\* Invocation p ended, by an error or a kill, after it had opened the file
\* for writing and before its last write(2).
DiedWriting(p) ==
    /\ pc[p] \in {"error_write", "killed"}
    /\ truncated[p]
    /\ \/ diedAt[p] = "write"
       \/ diedAt[p] = "flush" /\ wpos[p] < Len(buf[p])

\* No later invocation has touched the file.
Undisturbed(p) == \A q \in Procs : q > p => ~truncated[q]

\* C7 (as stated): after a failure between the open for writing and the end
\* of the write the file holds a prefix of the patched content that is
\* neither the original nor the fully patched content.
C7_NeitherOriginalNorPatched ==
    \A p \in Procs :
        (sched = "seq" /\ DiedWriting(p) /\ Undisturbed(p)) =>
            /\ IsPrefix(fs.data, Patched(inp[p], platform))
            /\ fs.data # inp[p]
            /\ fs.data # Patched(inp[p], platform)

\* C7 (amended): the file holds exactly the part written so far, a prefix
\* of the patched content; it differs from the patched content unless that
\* is empty, and from the original unless the original is empty or ends in
\* a carriage return.
C7_PartialLeft ==
    \A p \in Procs :
        (sched = "seq" /\ DiedWriting(p) /\ Undisturbed(p)) =>
            /\ IsPrefix(fs.data, Patched(inp[p], platform))
            /\ Len(fs.data) = wpos[p]
            /\ Patched(inp[p], platform) # <<>> =>
                  fs.data # Patched(inp[p], platform)
            /\ (inp[p] # <<>> /\ inp[p][Len(inp[p])] # CR) => fs.data # inp[p]

C7_Witness ==
    \E p \in Procs :
        /\ sched = "seq" /\ DiedWriting(p) /\ Undisturbed(p)
        /\ NoPattern(inp[p])
        /\ wpos[p] >= 1
        /\ fs.data # inp[p]
        /\ fs.data # Patched(inp[p], platform)

BothSucceeded == \A p \in Procs : Succeeded(p)

\* C8 (as stated): when two concurrent invocations have both completed, the
\* file holds the content written by the one that wrote last.
C8_LastWriterWins ==
    (sched = "conc" /\ BothSucceeded) => fs.data = buf[wr.last]

\* C8 (amended): the file holds the content written by the invocation that
\* wrote last when the other invocation wrote nothing after that
\* invocation had opened the file for writing; both orders of the two
\* invocations occur.
C8_LastUndisturbedWriterWins ==
    (sched = "conc" /\ BothSucceeded /\ wr.fresh) => fs.data = buf[wr.last]

C8_Witness ==
    /\ sched = "conc" /\ BothSucceeded /\ wr.fresh
    /\ wr.last = 1
    /\ buf[1] # buf[2]
    /\ buf[1] # <<>>
    /\ fs.data = buf[1]

\* Invocation p read the file after the other invocation had truncated it
\* and before the other had written all of its content.
LostRead(p) == inp[p] # orig /\ inp[p] # Patched(orig, platform)

\* C9: when an invocation that read the file between the other's truncation
\* and the end of the other's write has written back last, it read a proper
\* prefix of the patched content, both invocations have printed the
\* confirmation, and the file holds what that invocation made of its
\* partial read, which is the patched original only if a line end was cut.
C9_LostContent ==
    \A p \in Procs :
        (sched = "conc" /\ BothSucceeded /\ LostRead(p)
            /\ wr.last = p /\ wr.fresh) =>
            /\ IsPrefix(inp[p], Patched(orig, platform))
            /\ \A q \in Procs : stdout[q] = 1
            /\ fs.data = Patched(inp[p], platform)
            /\ fs.data = Patched(orig, platform) =>
                  (platform = "nt" /\ inp[p][Len(inp[p])] = CR)

C9_Witness ==
    \E p \in Procs :
        /\ sched = "conc" /\ BothSucceeded /\ LostRead(p)
        /\ wr.last = p /\ wr.fresh
        /\ \A q \in Procs : stdout[q] = 1
        /\ ~NoPattern(orig)
        /\ fs.data # Patched(orig, platform)

\* C10: on the string a run read, A then B equals B then A equals the
\* one-pass replacement of both; replacing A leaves the occurrences of B as
\* they were; and the result has no occurrence of A or B and only the
\* replacement occurrences that were there or were put there.
C10_SubstitutionsIndependent ==
    \A p \in Procs :
        /\ pc[p] = "substB" =>
              /\ content[p] = SubstituteA(Decoded(p))
              /\ Count(content[p], PatB) = Count(Decoded(p), PatB)
              /\ Count(content[p], PatA) = 0
              /\ Count(SubstituteB(Decoded(p)), PatA) = Count(Decoded(p), PatA)
        /\ pc[p] = "open_w" =>
              /\ content[p] = SubstituteA(SubstituteB(Decoded(p)))
              /\ content[p] = ReplaceBoth(Decoded(p))
              /\ NoPattern(content[p])
              /\ Count(content[p], Repl) =
                    Count(Decoded(p), PatA) + Count(Decoded(p), PatB)
                    + Count(Decoded(p), Repl)

C10_Witness ==
    \E p \in Procs :
        /\ pc[p] = "open_w"
        /\ Count(Decoded(p), PatA) = 1
        /\ Count(Decoded(p), PatB) = 1
        /\ Count(content[p], Repl) = 2

TypeOK ==
    /\ platform \in {"posix", "nt"}
    /\ sched \in {"seq", "conc"}
    /\ \A p \in Procs : stdout[p] \in 0..1 /\ wpos[p] \in 0..Len(buf[p])
====
